---- MODULE Spec2Model ----
(***************************************************************************)
(* Model of twitch_checker.py: the monitoring loop of TwitchLiveChecker,   *)
(* its status fetch, its two notification sinks and its per-login event    *)
(* history files.                                                          *)
(***************************************************************************)
EXTENDS Integers, Sequences, FiniteSets, TLC

(***************************************************************************)
(* Bounds of the model and constants of the program.                       *)
(***************************************************************************)
\* number of loop iterations (channel polls) explored in the monitor loop
MaxPolls == 6
\* the minutes of the clock explored in the uptime-only specification
MaxMinute == 95
\* number of appends explored in the journal-only specification
MaxAppends == 203
\* existing[-200:] in log_stream_event
JournalCap == 200

\* config["streamers"], in the configured order
Streamers == <<"a", "b">>
Channels == {Streamers[i] : i \in 1..Len(Streamers)}
\* a login the upstream may return in place of the configured one
AltLogin == "alt"
Logins == Channels \cup {AltLogin}
\* values a user may have put under a "journalCapacity" key of config.json
ConfigCaps == {2, 200}

VARIABLES
    pc,             \* "created", "poll", "sleep", "stopped"
    idx,            \* position in Streamers of the next channel to poll
    polls,          \* iterations done so far; also the clock of utcnow()
    stream_status,  \* self.stream_status
    files,          \* stream_logs/<login>_history.json, by login
    config,         \* self.config (the keys the loop reads) and NOTIFICATIONS_AVAILABLE
    halt,           \* why the loop ended: "none", "interrupt", "error"
    last,           \* what the last iteration did (history variable)
    lastSnap,       \* isLive of the last snapshot obtained per channel (history variable)
    hist,           \* records appended per file since it last started fresh (history variable)
    access_token,   \* self.access_token as the upstream sees it: "valid", "revoked", "rejected"
    log_handlers,   \* the FileHandler and StreamHandler of self.logger: "open" or "closed"
    journaled,      \* events recorded per channel in this run, in order (history variable)
    up              \* one call of format_uptime: started_at, the clock and the text

vars == <<pc, idx, polls, stream_status, files, config, halt, last, lastSnap, hist,
          access_token, log_handlers, journaled, up>>

(***************************************************************************)
(* Sequence helpers.                                                       *)
(***************************************************************************)
Min(a, b) == IF a < b THEN a ELSE b

\* s[-n:] of Python
LastN(s, n) == IF Len(s) <= n THEN s ELSE SubSeq(s, Len(s) - n + 1, Len(s))

(***************************************************************************)
(* Upstream responses and check_stream_status.                             *)
(***************************************************************************)
\* What one GET of helix/streams can come back with.
\*   neterr     requests.get raises (connection error, timeout)
\*   http_error a non-2xx status: raise_for_status raises HTTPError
\*   unauthorized  status 401, the answer to a bearer token that the
\*              upstream no longer accepts: raise_for_status raises HTTPError
\*   badjson    the body is not JSON: resp.json() raises
\*   badshape   JSON whose top level is no object, or whose "data" is a
\*              non-empty value that is no list of objects
\*   nodata     a JSON object without "data", or with "data" null
\*   empty      {"data": []}: no active broadcast
\*   stream     {"data": [{...}]}: an active broadcast
FailureKinds == {"neterr", "http_error", "unauthorized", "badjson", "badshape", "nodata"}

NoFields == [login |-> "", title |-> "", game |-> "", viewers |-> 0, started_at |-> ""]

Responses(username) ==
    {[kind |-> k, strict |-> TRUE] @@ NoFields : k \in {"neterr", "http_error", "badshape", "nodata", "empty"}}
    \cup {[kind |-> "badjson", strict |-> s] @@ NoFields : s \in BOOLEAN}
    \cup {[kind |-> "stream", strict |-> TRUE, login |-> l, title |-> "T", game |-> "G",
           viewers |-> 1, started_at |-> st] :
             l \in {username, AltLogin}, st \in {"", "iso", "garbage"}}

\* the answers to a request made with the token: a token that the upstream
\* does not accept gets 401, unless the request does not get through
Answers(username, token) ==
    IF token = "valid" THEN Responses(username)
    ELSE {[kind |-> k, strict |-> TRUE] @@ NoFields : k \in {"neterr", "unauthorized"}}

NoInfo == [user_login |-> "", title |-> "", game_name |-> "", viewer_count |-> 0,
           started_at |-> "", is_live |-> FALSE]

\* StreamInfo(username, username, "", "", 0, "", "", False)
OfflineInfo(username) == [NoInfo EXCEPT !.user_login = username]

\* result: tag "none" (returns None), "raise" (an exception that is no
\* RequestException leaves the function) or "info" (a StreamInfo).
\* resp.strict tells whether the installed requests raises its own
\* JSONDecodeError (a RequestException) for a body that is not JSON.
check_stream_status(username, resp) ==
    CASE resp.kind \in {"neterr", "http_error", "unauthorized"} ->
            [tag |-> "none", info |-> NoInfo]
      [] resp.kind = "badjson" ->
            IF resp.strict THEN [tag |-> "none", info |-> NoInfo]
                           ELSE [tag |-> "raise", info |-> NoInfo]
      [] resp.kind = "badshape" -> [tag |-> "raise", info |-> NoInfo]
      [] resp.kind \in {"nodata", "empty"} -> [tag |-> "info", info |-> OfflineInfo(username)]
      [] OTHER -> [tag |-> "info",
                   info |-> [user_login |-> resp.login, title |-> resp.title,
                             game_name |-> resp.game, viewer_count |-> resp.viewers,
                             started_at |-> resp.started_at, is_live |-> TRUE]]

(***************************************************************************)
(* Notification sinks.                                                     *)
(***************************************************************************)
\* a guard that forgets the configuration switch
DesktopEnabled_IgnoresSwitch(cfg) == cfg.notifications_available

\* NOTIFICATIONS_AVAILABLE and self.config["enable_desktop_notifications"]
DesktopEnabled(cfg) == cfg.notifications_available /\ cfg.enable_desktop_notifications

\* self.config["enable_discord_notifications"] and self.config["discord_webhook"]
WebhookEnabled(cfg) == cfg.enable_discord_notifications /\ cfg.discord_webhook # ""

\* outcome: what notification.notify does ("ok" or "error")
send_desktop_notification(cfg, outcome) ==
    IF ~DesktopEnabled(cfg) THEN "skipped"
    ELSE IF outcome = "error" THEN "failed"
    ELSE "delivered"

\* outcome: what requests.post does ("ok", "non2xx" or "error")
send_discord_webhook(cfg, outcome) ==
    IF ~WebhookEnabled(cfg) THEN "skipped"
    ELSE IF outcome = "error" THEN "failed"
    ELSE IF outcome = "non2xx" THEN "rejected"
    ELSE "delivered"

(***************************************************************************)
(* The event history files and log_stream_event.                           *)
(***************************************************************************)
\* kinds of file content:
\*   absent       the file does not exist
\*   list         a JSON list (recs)
\*   unparseable  not JSON (json.load raises JSONDecodeError)
\*   notalist     JSON, but no list (an object, a string, a number)
\*   unreadable   open or decoding fails (OSError, UnicodeDecodeError)
Absent == [kind |-> "absent", recs |-> << >>]
Damaged(k) == [kind |-> k, recs |-> << >>]
DamageKinds == {"unparseable", "notalist", "unreadable"}

Entry(info, event, now) ==
    [timestamp |-> now, event |-> event, title |-> info.title,
     game |-> info.game_name, viewers |-> info.viewer_count]

\* existing[:200]: keeping the oldest records
Truncate_KeepsOldest(existing) == SubSeq(existing, 1, Min(Len(existing), JournalCap))

\* existing[-200:]
Truncate(existing) == LastN(existing, JournalCap)

\* wr: what writing does: "ok", "open_error" (open(file, "w") raises) or
\* "dump_error" (the write fails after the file was truncated).
\* result: the file's new content and whether an exception left the function.
log_stream_event(content, info, event, now, wr) ==
    IF content.kind \in {"notalist", "unreadable"}
    THEN [content |-> content, raised |-> TRUE]
    ELSE LET existing == IF content.kind = "list" THEN content.recs ELSE << >>
             appended == Append(existing, Entry(info, event, now))
         IN  CASE wr = "ok" -> [content |-> [kind |-> "list", recs |-> Truncate(appended)],
                                raised |-> FALSE]
               [] wr = "open_error" -> [content |-> content, raised |-> TRUE]
               [] OTHER -> [content |-> Damaged("unparseable"), raised |-> TRUE]

(***************************************************************************)
(* format_uptime.                                                          *)
(***************************************************************************)
\* "raise": datetime.fromisoformat rejects the string
format_uptime(started_at) ==
    CASE started_at = "" -> "0m"
      [] started_at = "garbage" -> "raise"
      [] OTHER -> "uptime"

\* The text format_uptime builds from a started_at that parses: start and
\* now are minutes on the UTC clock.  diff.total_seconds() // 60 and divmod
\* round towards minus infinity, as \div and % do.
\* form "hm" is f"{h}h {m}m", form "m" is f"{m}m".
UptimeText(start, now) ==
    LET total_seconds == 60 * (now - start)
        minutes == total_seconds \div 60
        h == minutes \div 60
        m == minutes % 60
    IN  IF h # 0 THEN [form |-> "hm", h |-> h, m |-> m]
                 ELSE [form |-> "m", h |-> 0, m |-> m]

\* "0m"
ZeroMinutes == [form |-> "m", h |-> 0, m |-> 0]
NotRendered == [form |-> "", h |-> 0, m |-> 0]

\* format_uptime with the clock: given tells whether started_at is a
\* non-empty string, start is the minute it names
Uptime(given, start, now) ==
    IF ~given THEN ZeroMinutes ELSE UptimeText(start, now)

(***************************************************************************)
(* One iteration of the for loop of monitor_streamers.                     *)
(***************************************************************************)
\* a chain that forgets the stored status on the live side
Branch_NoEdge(prev_live, now_live) ==
    IF now_live THEN "went_live"
    ELSE IF prev_live THEN "went_offline"
    ELSE "none"

\* the if / elif chain
Branch(prev_live, now_live) ==
    IF now_live /\ ~prev_live THEN "went_live"
    ELSE IF ~now_live /\ prev_live THEN "went_offline"
    ELSE IF now_live THEN "still_live"
    ELSE "none"

\* notifying on every live poll
NotifyBranches_EveryLivePoll == {"went_live", "still_live"}

\* recording on every poll that finds the channel live
JournalBranches_EveryLivePoll == {"went_live", "went_offline", "still_live"}

\* the branches that call the two sinks
NotifyBranches == {"went_live"}
\* the branches that call log_stream_event
JournalBranches == {"went_live", "went_offline"}

Idle == [chan |-> "", resp |-> "", prev |-> FALSE, fetched |-> "none", event |-> "none",
         desktop |-> "skipped", webhook |-> "skipped", journal |-> "none", file |-> "",
         found |-> "", write |-> "", uptime |-> "", raised |-> FALSE, cut |-> "none",
         before |-> "none", token |-> "", logged |-> {}]

\* the branch the iteration takes, "none" also when no StreamInfo comes back
BranchOf(status, username, resp) ==
    LET r == check_stream_status(username, resp)
    IN  IF r.tag = "info" THEN Branch(status[username], r.info.is_live) ELSE "none"

\* the content log_stream_event finds: the stored one, or a damaged one when
\* the file was damaged from outside since it was last written
Found(content, damage) == IF damage = "asis" THEN content ELSE Damaged(damage)

\* The steps of an iteration before which a KeyboardInterrupt can arrive,
\* in the order the code takes them; "none" is no interrupt.
StepRank(step) ==
    CASE step = "fetch" -> 1
      [] step = "desktop" -> 2
      [] step = "webhook" -> 3
      [] step = "journal" -> 4
      [] step = "update" -> 5
      [] OTHER -> 6

\* The log records of level WARNING or above that an iteration writes:
\* logger.error in check_stream_status when it returns None, logger.warning
\* in a sink whose call raised, and logger.error of the handler that an
\* exception leaving the iteration reaches.
Logged(tag, d, w, failed) ==
    (IF tag = "none" THEN {"error: network"} ELSE {})
    \cup (IF d = "failed" THEN {"warning: desktop"} ELSE {})
    \cup (IF w = "failed" THEN {"warning: discord"} ELSE {})
    \cup (IF failed THEN {"error: unexpected"} ELSE {})

\* The iteration for `username` given the upstream's response, the outcomes
\* of the collaborators and the step before which a KeyboardInterrupt
\* arrives; returns the new status map, the new files and what happened.
Iteration(status, fs, cfg, username, resp, dOut, wOut, damage, jOut, cut, now) ==
    LET r == check_stream_status(username, resp)
        start == [Idle EXCEPT !.chan = username, !.prev = status[username]]
        base == [start EXCEPT !.resp = resp.kind]
        reaches(step) == StepRank(cut) > StepRank(step)
    IN  IF cut = "fetch"
        THEN [status |-> status, files |-> fs, what |-> [start EXCEPT !.cut = cut]]
        ELSE IF r.tag = "raise"
        THEN [status |-> status, files |-> fs,
              what |-> [base EXCEPT !.raised = TRUE,
                                    !.logged = Logged(r.tag, "skipped", "skipped", TRUE)]]
        ELSE IF r.tag = "none"
        THEN [status |-> status, files |-> fs,
              what |-> [base EXCEPT !.logged = Logged(r.tag, "skipped", "skipped", FALSE)]]
        ELSE
        LET info == r.info
            prev_live == status[username]
            now_live == info.is_live
            b == Branch(prev_live, now_live)
            d == IF b \in NotifyBranches /\ reaches("desktop")
                 THEN send_desktop_notification(cfg, dOut) ELSE "skipped"
            w == IF b \in NotifyBranches /\ reaches("webhook")
                 THEN send_discord_webhook(cfg, wOut) ELSE "skipped"
            logs == b \in JournalBranches /\ reaches("journal")
            seen == Found(fs[info.user_login], damage)
            j == IF logs
                 THEN log_stream_event(seen, info, b, now, jOut)
                 ELSE [content |-> fs[info.user_login], raised |-> FALSE]
            u == IF b = "still_live" /\ reaches("journal")
                 THEN format_uptime(info.started_at) ELSE ""
            failed == j.raised \/ u = "raise"
            stopped == failed \/ cut # "none"
            what == [base EXCEPT !.fetched = IF now_live THEN "live" ELSE "offline",
                                 !.event = b, !.desktop = d, !.webhook = w,
                                 !.journal = IF ~logs THEN "none"
                                             ELSE IF j.raised THEN "raised" ELSE "appended",
                                 !.file = IF logs THEN info.user_login ELSE "",
                                 !.found = IF logs THEN seen.kind ELSE "",
                                 !.write = IF logs THEN jOut ELSE "",
                                 !.uptime = u, !.raised = failed,
                                 !.logged = Logged(r.tag, d, w, failed),
                                 !.cut = IF failed THEN "none" ELSE cut]
        IN  [status |-> IF stopped THEN status ELSE [status EXCEPT ![username] = now_live],
             files |-> [fs EXCEPT ![info.user_login] = j.content],
             what |-> what]

(***************************************************************************)
(* Actions.                                                                *)
(***************************************************************************)
\* the configurations explored: every sink on, the defaults written by
\* load_config, plyer not installed, the desktop sink switched off together
\* with an empty webhook URL, and the webhook switched off
Config(avail, desktop, discord, url) ==
    [notifications_available |-> avail, enable_desktop_notifications |-> desktop,
     enable_discord_notifications |-> discord, discord_webhook |-> url,
     journalCapacity |-> JournalCap]

Configs ==
    {Config(TRUE, TRUE, TRUE, "url"), Config(TRUE, TRUE, FALSE, ""),
     Config(FALSE, TRUE, TRUE, "url"), Config(TRUE, FALSE, TRUE, ""),
     Config(TRUE, TRUE, FALSE, "url")}

\* no call of format_uptime made
NoCall == [given |-> FALSE, start |-> 0, now |-> 0, text |-> NotRendered]

\* __init__: load_config, setup_logging (which opens the handlers) and
\* authenticate have run, and authenticate did not raise
Init ==
    /\ pc = "created"
    /\ idx = 1
    /\ polls = 0
    /\ stream_status = [c \in Channels |-> FALSE]
    /\ files = [l \in Logins |-> Absent]
    /\ config \in Configs
    /\ halt = "none"
    /\ last = Idle
    /\ lastSnap = [c \in Channels |-> "none"]
    /\ hist = [l \in Logins |-> << >>]
    /\ access_token = "valid"
    /\ log_handlers = "open"
    /\ journaled = [c \in Channels |-> << >>]
    /\ up = NoCall

\* monitor_streamers up to the while loop
Start ==
    /\ pc = "created"
    /\ pc' = "poll"
    /\ stream_status' = [c \in Channels |-> FALSE]
    /\ UNCHANGED <<idx, polls, files, config, halt, last, lastSnap, hist,
                   access_token, log_handlers, journaled, up>>

\* the records appended to a file since it last started fresh
NextHist(h, new, what) ==
    IF what.journal = "none" THEN h
    ELSE IF new[what.file].kind # "list" THEN [h EXCEPT ![what.file] = << >>]
    ELSE IF what.journal = "raised" THEN h
    ELSE IF what.found = "list"
         THEN [h EXCEPT ![what.file] = Append(@, new[what.file].recs[Len(new[what.file].recs)])]
         ELSE [h EXCEPT ![what.file] = new[what.file].recs]

\* the outcomes of the collaborators that an iteration taking branch b and
\* interrupted before step cut can meet: a collaborator that is not called
\* has one outcome
DesktopOutcomes(cfg, b, cut) ==
    IF b \in NotifyBranches /\ DesktopEnabled(cfg) /\ StepRank(cut) > StepRank("desktop")
    THEN {"ok", "error"} ELSE {"ok"}
WebhookOutcomes(cfg, b, cut) ==
    IF b \in NotifyBranches /\ WebhookEnabled(cfg) /\ StepRank(cut) > StepRank("webhook")
    THEN {"ok", "non2xx", "error"} ELSE {"ok"}
Damages(b, cut) ==
    IF b \in JournalBranches /\ StepRank(cut) > StepRank("journal")
    THEN {"asis"} \cup DamageKinds ELSE {"asis"}
WriteOutcomes(b, cut) ==
    IF b \in JournalBranches /\ StepRank(cut) > StepRank("journal")
    THEN {"ok", "open_error", "dump_error"} ELSE {"ok"}
\* the steps before which a KeyboardInterrupt can arrive in an iteration that
\* gets the result `tag` from check_stream_status and takes branch b
Cuts(tag, b) ==
    {"none", "fetch"}
    \cup (IF tag = "info" THEN {"update"} ELSE {})
    \cup (IF b \in NotifyBranches THEN {"desktop", "webhook"} ELSE {})
    \cup (IF b \in JournalBranches THEN {"journal"} ELSE {})

\* one iteration of `for username in self.config["streamers"]`
PollChannel ==
    /\ pc = "poll"
    /\ polls < MaxPolls
    /\ LET username == Streamers[idx] IN
       \E resp \in Answers(username, access_token) :
         \E b \in {BranchOf(stream_status, username, resp)} :
         \E cut \in Cuts(check_stream_status(username, resp).tag, b) :
         \E dOut \in DesktopOutcomes(config, b, cut), wOut \in WebhookOutcomes(config, b, cut),
            damage \in Damages(b, cut), jOut \in WriteOutcomes(b, cut) :
         \E it \in {Iteration(stream_status, files, config, username, resp,
                               dOut, wOut, damage, jOut, cut, polls + 1)} :
              /\ stream_status' = it.status
              /\ files' = it.files
              /\ last' = [it.what EXCEPT !.before = lastSnap[username],
                                          !.token = access_token]
              /\ access_token' = IF it.what.resp = "unauthorized" THEN "rejected"
                                 ELSE access_token
              /\ journaled' = IF it.what.journal = "appended"
                              THEN [journaled EXCEPT ![username] = Append(@, it.what.event)]
                              ELSE journaled
              /\ lastSnap' = IF it.what.fetched = "none" THEN lastSnap
                             ELSE [lastSnap EXCEPT ![username] = it.what.fetched]
              /\ hist' = NextHist(hist, it.files, it.what)
              /\ IF it.what.raised
                 THEN pc' = "stopped" /\ halt' = "error" /\ idx' = idx
                 ELSE IF it.what.cut # "none"
                 THEN pc' = "stopped" /\ halt' = "interrupt" /\ idx' = idx
                 ELSE /\ halt' = halt
                      /\ IF idx = Len(Streamers)
                         THEN pc' = "sleep" /\ idx' = 1
                         ELSE pc' = "poll" /\ idx' = idx + 1
    /\ polls' = polls + 1
    /\ UNCHANGED <<config, log_handlers, up>>

\* time.sleep(check_interval), then the next round
Sleep ==
    /\ pc = "sleep"
    /\ pc' = "poll"
    /\ UNCHANGED <<idx, polls, stream_status, files, config, halt, last, lastSnap, hist,
                   access_token, log_handlers, journaled, up>>

\* KeyboardInterrupt during the sleep or between two iterations
Interrupt ==
    /\ pc \in {"poll", "sleep"}
    /\ pc' = "stopped"
    /\ halt' = "interrupt"
    /\ UNCHANGED <<idx, polls, stream_status, files, config, last, lastSnap, hist,
                   access_token, log_handlers, journaled, up>>

\* The upstream stops accepting the token that authenticate obtained: its
\* expires_in has passed, or it was revoked.  The program is not told.
Expire ==
    /\ pc \in {"poll", "sleep"}
    /\ access_token = "valid"
    /\ access_token' = "revoked"
    /\ UNCHANGED <<pc, idx, polls, stream_status, files, config, halt, last, lastSnap, hist,
                   log_handlers, journaled, up>>

Next == Start \/ PollChannel \/ Sleep \/ Interrupt \/ Expire

Spec == Init /\ [][Next]_vars

(***************************************************************************)
(* The journal alone: log_stream_event applied again and again to the      *)
(* history file of one login, with the edge events of one channel.         *)
(***************************************************************************)
JournalLogin == Streamers[1]
\* the appends at which the file may be found damaged or the write may fail
FaultTimes == {2, JournalCap + 1}

InitJ ==
    /\ pc = "journal"
    /\ idx = 1
    /\ polls = 0
    /\ stream_status = [c \in Channels |-> FALSE]
    /\ files = [l \in Logins |-> Absent]
    /\ config \in {[Config(TRUE, TRUE, FALSE, "") EXCEPT !.journalCapacity = n] : n \in ConfigCaps}
    /\ halt = "none"
    /\ last = Idle
    /\ lastSnap = [c \in Channels |-> "none"]
    /\ hist = [l \in Logins |-> << >>]
    /\ access_token = "valid"
    /\ log_handlers = "open"
    /\ journaled = [c \in Channels |-> << >>]
    /\ up = NoCall

\* the StreamInfo of a live snapshot of the login
LiveInfo(login) ==
    [user_login |-> login, title |-> "T", game_name |-> "G", viewer_count |-> 1,
     started_at |-> "iso", is_live |-> TRUE]

\* one call of log_stream_event(info, event)
JournalAppend ==
    /\ pc = "journal"
    /\ polls < MaxAppends
    /\ \E damage \in (IF polls + 1 \in FaultTimes THEN {"asis", "unparseable"} ELSE {"asis"}),
          jOut \in (IF polls + 1 \in FaultTimes THEN {"ok", "open_error", "dump_error"} ELSE {"ok"}) :
          LET l == JournalLogin
              goesLive == ~stream_status[l]
              info == IF goesLive THEN LiveInfo(l) ELSE OfflineInfo(l)
              event == IF goesLive THEN "went_live" ELSE "went_offline"
              seen == Found(files[l], damage)
              j == log_stream_event(seen, info, event, polls + 1, jOut)
              what == [Idle EXCEPT !.chan = l, !.event = event, !.file = l,
                                   !.found = seen.kind, !.write = jOut,
                                   !.journal = IF j.raised THEN "raised" ELSE "appended",
                                   !.raised = j.raised]
          IN  /\ files' = [files EXCEPT ![l] = j.content]
              /\ hist' = NextHist(hist, files', what)
              /\ last' = what
              /\ stream_status' = [stream_status EXCEPT ![l] = goesLive]
    /\ polls' = polls + 1
    /\ UNCHANGED <<pc, idx, config, halt, lastSnap, access_token, log_handlers, journaled, up>>

NextJ == JournalAppend

SpecJournal == InitJ /\ [][NextJ]_vars

(***************************************************************************)
(* format_uptime alone: one call, with started_at absent or naming any     *)
(* minute of the range, at any minute of the clock.                        *)
(***************************************************************************)
InitU ==
    /\ pc = "uptime"
    /\ idx = 1
    /\ polls = 0
    /\ stream_status = [c \in Channels |-> FALSE]
    /\ files = [l \in Logins |-> Absent]
    /\ config = Config(TRUE, TRUE, FALSE, "")
    /\ halt = "none"
    /\ last = Idle
    /\ lastSnap = [c \in Channels |-> "none"]
    /\ hist = [l \in Logins |-> << >>]
    /\ access_token = "valid"
    /\ log_handlers = "open"
    /\ journaled = [c \in Channels |-> << >>]
    /\ up \in {[given |-> g, start |-> s, now |-> n, text |-> NotRendered] :
                 g \in BOOLEAN, s \in 0..MaxMinute, n \in 0..MaxMinute}
    /\ up.given \/ up.start = 0

\* the call format_uptime(info.started_at)
RenderUptime ==
    /\ pc = "uptime"
    /\ up.text = NotRendered
    /\ up' = [up EXCEPT !.text = Uptime(up.given, up.start, up.now)]
    /\ UNCHANGED <<pc, idx, polls, stream_status, files, config, halt, last, lastSnap, hist,
                   access_token, log_handlers, journaled>>

NextU == RenderUptime

SpecUptime == InitU /\ [][NextU]_vars

(***************************************************************************)
(* Properties.                                                             *)
(***************************************************************************)
\* the last iteration obtained a snapshot and was not cancelled
Polled == last.chan # "" /\ last.fetched # "none" /\ last.cut = "none"
\* the sinks that the configuration switches on
DesktopOn == config.notifications_available /\ config.enable_desktop_notifications
WebhookOn == config.enable_discord_notifications /\ config.discord_webhook # ""

\* C1: a poll emits went_live exactly when its snapshot is live and the
\* channel's previous snapshot was offline or there was none; a live
\* snapshot after a live one gives still_live, and went_offline is emitted
\* exactly on an offline snapshot after a live one, so two went_live are
\* always separated by a went_offline.
C1_EdgeTriggered ==
    last.chan # "" =>
        /\ last.event = "went_live" <=>
              (last.fetched = "live" /\ last.before \in {"none", "offline"})
        /\ (last.fetched = "live" /\ last.before = "live") => last.event = "still_live"
        /\ last.event = "went_offline" <=>
              (last.fetched = "offline" /\ last.before = "live")

\* a live snapshot right after a live one
C1_Witness == last.fetched = "live" /\ last.before = "live" /\ last.event = "still_live"

\* C2: for every snapshot the event is the one the table gives for
\* (stored status, isLive), and afterwards the stored status equals isLive.
C2_DetectionTotal ==
    Polled =>
        LET now_live == last.fetched = "live" IN
        /\ last.event = (IF ~last.prev /\ now_live THEN "went_live"
                         ELSE IF last.prev /\ ~now_live THEN "went_offline"
                         ELSE IF last.prev /\ now_live THEN "still_live"
                         ELSE "none")
        /\ stream_status[last.chan] = now_live

\* C3: the stored status of every channel equals isLive of the last
\* snapshot obtained for it, and is false when there was none.
C3_StatusTracksSnapshot ==
    halt # "interrupt" =>
        \A c \in Channels : stream_status[c] = (lastSnap[c] = "live")

\* C4: a failed fetch (no connection, a non-2xx status, a malformed body)
\* leaves the stored status as it was and causes no event, no sink call and
\* no journal append.
C4_FetchFailureFrame ==
    (last.chan # "" /\ last.resp \in FailureKinds) =>
        /\ last.event = "none"
        /\ last.desktop = "skipped" /\ last.webhook = "skipped"
        /\ last.journal = "none"
        /\ stream_status[last.chan] = last.prev

\* C5: a failed fetch of any kind does not end the round: the loop goes on
\* to the next channel.
C5_FetchFailureIsolated ==
    (last.chan # "" /\ last.resp \in FailureKinds) => ~(pc = "stopped" /\ halt = "error")

\* C6: an iteration that takes the still-live branch calls no sink and
\* leaves every history file as it was.
C6_StillLiveSilent ==
    [][(polls' # polls /\ last'.event = "still_live") =>
          /\ last'.desktop = "skipped" /\ last'.webhook = "skipped"
          /\ last'.journal = "none"
          /\ files' = files]_vars

\* a still-live poll while both sinks are switched on
C6_Witness == last.event = "still_live" /\ DesktopOn /\ WebhookOn

\* C7 as claimed: went_live and went_offline are both handed to every sink
\* that is switched on, and a sink that is switched off gets nothing.
C7_EveryEdgeDispatched ==
    (Polled /\ last.event \in {"went_live", "went_offline"}) =>
        /\ last.desktop # "skipped" <=> DesktopOn
        /\ last.webhook # "skipped" <=> WebhookOn

\* C7 as amended: went_live, unless a KeyboardInterrupt cuts its handling
\* short, is handed to every sink that is switched on; a sink that is
\* switched off never gets anything, and went_offline is handed to no sink.
C7_LiveEdgeDispatched ==
    /\ (Polled /\ last.event = "went_live") =>
          /\ DesktopOn => last.desktop # "skipped"
          /\ WebhookOn => last.webhook # "skipped"
    /\ ~DesktopOn => last.desktop = "skipped"
    /\ ~WebhookOn => last.webhook = "skipped"
    /\ last.event # "went_live" =>
          last.desktop = "skipped" /\ last.webhook = "skipped"

\* went_live with the desktop sink on and the webhook switched off
C7_Witness ==
    /\ Polled
    /\ last.event = "went_live"
    /\ last.desktop = "delivered" /\ last.webhook = "skipped"
    /\ ~config.enable_discord_notifications

\* C8: when a sink fails, the other sink is still called, no exception
\* leaves the iteration, the record is appended and the status is updated.
C8_SinkFailureIsolated ==
    (Polled /\ (last.desktop = "failed" \/ last.webhook = "failed")) =>
        /\ DesktopOn => last.desktop # "skipped"
        /\ WebhookOn => last.webhook # "skipped"
        /\ ~last.raised
        /\ last.journal = "appended"
        /\ stream_status[last.chan] = (last.fetched = "live")

\* what the stored list must be when at most cap records are kept: the
\* most recent ones of those appended, in the order of appending
KeepsMostRecent(recs, appended, cap) ==
    /\ Len(recs) = Min(Len(appended), cap)
    /\ \A i \in 1..Len(recs) : recs[i] = appended[Len(appended) - Len(recs) + i]

C10_DamagedStartsFresh ==
    (Polled /\ last.journal # "none" /\ last.found \in DamageKinds /\ last.write = "ok") =>
        /\ ~last.raised
        /\ files[last.file].kind = "list"
        /\ Len(files[last.file].recs) = 1
        /\ files[last.file].recs[1].timestamp = polls

\* C11: when writing the history file fails, the exception goes no further
\* than the append: the stored status becomes the snapshot's isLive and the
\* loop goes on with the next channel.
C11_WriteFailureDropped ==
    (Polled /\ last.journal # "none" /\ last.found \notin {"notalist", "unreadable"}
            /\ last.write # "ok") =>
        /\ ~last.raised
        /\ stream_status[last.chan] = (last.fetched = "live")
        /\ pc # "stopped"

\* C12: the loop is left only by a KeyboardInterrupt: no error met while
\* handling one channel ends it.
C12_OnlyCancellationStops ==
    pc = "stopped" => halt = "interrupt"

\* C13: a token that the upstream has rejected is replaced before the next
\* fetch: no fetch presents a token that an earlier fetch saw rejected.
C13_RejectedTokenRefreshed ==
    (last.chan # "" /\ last.resp = "unauthorized") => last.token # "rejected"

\* C14: when a KeyboardInterrupt has ended the loop, the handlers of the
\* logger are closed.
C14_StoppedReleasesHandlers ==
    (pc = "stopped" /\ halt = "interrupt") => log_handlers = "closed"

\* C15: the text is "0m" when started_at is absent or later than now;
\* otherwise, with e the minutes elapsed, it is "<e div 60>h <e mod 60>m",
\* or "<e mod 60>m" when e div 60 is 0.  No number in it is negative.
C15_UptimeClamped ==
    up.text # NotRendered =>
        LET e == up.now - up.start IN
        /\ up.text = (IF ~up.given \/ e < 0 THEN ZeroMinutes
                      ELSE IF e \div 60 = 0 THEN [form |-> "m", h |-> 0, m |-> e % 60]
                      ELSE [form |-> "hm", h |-> e \div 60, m |-> e % 60])
        /\ up.text.h >= 0 /\ up.text.m >= 0

\* C16: an iteration that takes the went_live or the went_offline branch
\* leaves one new record of that event at the end of the history file of
\* the channel it polled, and an iteration that takes another branch
\* appends nothing.
C16_OneRecordPerEdge ==
    Polled =>
        IF last.event \in {"went_live", "went_offline"}
        THEN /\ last.journal = "appended"
             /\ last.file = last.chan
             /\ files[last.chan].kind = "list"
             /\ LET recs == files[last.chan].recs
                IN  /\ Len(recs) > 0
                    /\ recs[Len(recs)].event = last.event
                    /\ recs[Len(recs)].timestamp = polls
        ELSE last.journal = "none"

\* C17: the went_offline record carries the title, the game and the viewer
\* count of the channel's last live snapshot.
C17_OfflineCarriesLastSnapshot ==
    (Polled /\ last.event = "went_offline" /\ last.journal = "appended") =>
        LET recs == files[last.file].recs
            rec == recs[Len(recs)]
        IN  rec.title = "T" /\ rec.game = "G" /\ rec.viewers = 1

\* C18: every record is written to the history file named after the
\* configured streamer, whatever login the upstream returns.
C18_JournalKeyedByChannel ==
    (last.chan # "" /\ last.journal # "none") => last.file = last.chan

\* C19: every failure that the iteration absorbs leaves a log record of
\* level WARNING or above: a fetch that returns None, a sink whose call
\* raised or whose webhook answered non-2xx, a history file that does not
\* parse, a history file that cannot be written.
C19_NoSilentFailure ==
    last.chan # "" =>
        /\ (last.resp # "" /\ last.fetched = "none") => last.logged # {}
        /\ last.desktop = "failed" => "warning: desktop" \in last.logged
        /\ last.webhook \in {"failed", "rejected"} => "warning: discord" \in last.logged
        /\ (last.journal # "none" /\ last.found = "unparseable") => last.logged # {}
        /\ (last.journal # "none" /\ last.write # "ok"
              /\ last.found \notin {"notalist", "unreadable"}) => last.logged # {}

\* C20: within one run the events recorded for a channel alternate,
\* beginning with went_live: the 1st, 3rd, ... are went_live and the 2nd,
\* 4th, ... are went_offline, so the two counts differ by at most one.
C20_JournalAlternates ==
    \A c \in Channels : \A i \in 1..Len(journaled[c]) :
        journaled[c][i] = (IF i % 2 = 1 THEN "went_live" ELSE "went_offline")

\* three events recorded for one channel while every fetch of the other
\* channel in between has failed
C20_Witness == Len(journaled["a"]) >= 3 /\ lastSnap["b"] = "none"

====
